---- MODULE Spec2Model ----
(***************************************************************************)
(* git-who: the interactive blame browser of src/src/terminal.rs.          *)
(*                                                                         *)
(* The state is the App struct (blame, blame_state, repo, commit_stack,    *)
(* line_history, line_history_scroll) plus the position of run_app's loop. *)
(* handle_input and scroll are operators from an App value to an App value *)
(* and a result; run_app's loop body is the action KeyEvent.               *)
(***************************************************************************)
EXTENDS Integers, Sequences, FiniteSets, TLC

VARIABLES blame, blame_state, repo, commit_stack, line_history,
          line_history_scroll, pc, last

app_vars == <<blame, blame_state, repo, commit_stack, line_history, line_history_scroll>>
vars == <<blame, blame_state, repo, commit_stack, line_history,
          line_history_scroll, pc, last>>

----------------------------------------------------------------------------
(* Bounds of the model *)

\* commits of the repository: 1 is the start commit, NumCommits the root
NumCommits == 2
\* longest blame listing
MaxLen == 2
\* a terminal height of a few lines
MaxViewport == 2
\* a line history of a few lines, taller than that terminal
MaxLogHeight == 3

(* Program constants *)

\* u16::MAX, the width of line_history_scroll and of Rect.height
U16Max == 65535
\* i16::MAX, the width of scroll's amount
I16Max == 32767

----------------------------------------------------------------------------
(* Option<T>, Vec<T> and integer helpers *)

None == <<>>
Some(x) == <<x>>
is_some(o) == o # <<>>
unwrap(o) == o[1]

Min(a, b) == IF a <= b THEN a ELSE b
Max(a, b) == IF a >= b THEN a ELSE b

\* Ord::clamp
clamp(x, lo, hi) == IF x < lo THEN lo ELSE IF x > hi THEN hi ELSE x

\* u16::saturating_add_signed(i16)
saturating_add_signed_u16(x, amount) == clamp(x + amount, 0, U16Max)

\* u16::saturating_sub
saturating_sub_u16(a, b) == IF a >= b THEN a - b ELSE 0

\* usize::saturating_add_signed(isize); the upper saturation at usize::MAX is
\* out of reach of every index the model forms
saturating_add_signed_usize(x, amount) == Max(x + amount, 0)

\* u16::try_from(usize).is_ok()
u16_try_from_ok(n) == n <= U16Max

\* i16::try_from(u16).is_ok()
i16_try_from_ok(n) == n <= I16Max

\* Vec::last() / Vec::pop()
last_of(v) == IF Len(v) = 0 THEN None ELSE Some(v[Len(v)])
pop(v) == SubSeq(v, 1, Len(v) - 1)

----------------------------------------------------------------------------
(* The History Provider (crate::git), of which only the calls are in src/ *)

Commits == 1..NumCommits

\* the blame of n lines at commit c, as the BlameLine.commit of each line:
\* the last line was last changed by c itself, the line before it by the
\* parent of c, and so on up to the root commit
blame_at(c, n) == [i \in 1..n |-> Min(c + n - i, NumCommits)]

\* a repository: for every commit the blame of the file at that commit, of
\* any length up to MaxLen
Repositories ==
    {[c \in Commits |-> blame_at(c, len[c])] : len \in [Commits -> 0..MaxLen]}

\* repo.find_commit(c)?.parent_id(0): the root commit has no parent
has_parent(c) == c < NumCommits
parent_id(c) == c + 1

\* git::blame(repo, filepath, commit), when it succeeds
git_blame(r, commit) == r[commit]

\* git::log_follow(repo, filepath, index, commit): a Text of some height
git_log_follow(index, commit, height) == [height |-> height]

\* Text::height()
text_height(text) == text.height

\* an empty Text, one of a few lines, and one too tall for a u16
LogHeights == {0, MaxLogHeight, U16Max + 1}
\* terminals of no line, of one line, of a few lines, and the tallest
Viewports == {0, 1, MaxViewport, U16Max}

----------------------------------------------------------------------------
(* App and the results of handle_input *)

App == [blame |-> blame, blame_state |-> blame_state, repo |-> repo,
        commit_stack |-> commit_stack, line_history |-> line_history,
        line_history_scroll |-> line_history_scroll]

\* Ok(true), Ok(false), Err(err), or a panic that unwinds out of run_app
Result(a, res, calls) == [app |-> a, res |-> res, calls |-> calls]

\* a panic leaves the App as it was when the panic struck
Panic(a, calls) == Result(a, "Panic", calls)

----------------------------------------------------------------------------
(* fn scroll(app, term_size, amount), terminal.rs 154-174.  It returns (),
   after which handle_input returns Ok(true). *)

\* the largest scroll offset of the line history
max_scroll(text, height) == saturating_sub_u16(text_height(text), height)

\* the new offset of the line history
new_scroll(offset, amount, max) == clamp(saturating_add_signed_u16(offset, amount), 0, max)

\* Some(line_history) arm
scroll_line_history(a, height, amount) ==
    LET text == unwrap(a.line_history) IN
    IF ~u16_try_from_ok(text_height(text))
    THEN Panic(a, {})                         \* u16::try_from(..).unwrap()
    ELSE Result([a EXCEPT !.line_history_scroll =
                     new_scroll(@, amount, max_scroll(text, height))],
                "Ok_true", {})

\* new_selection with the clamp's upper end one too far
new_selection_upto_len(index, amount, len) ==
    clamp(saturating_add_signed_usize(index, amount), 0, len)

\* the index selected by a scroll of a list with a selection; len > 0
new_selection(index, amount, len) ==
    clamp(saturating_add_signed_usize(index, amount), 0, len - 1)

\* the index selected by the first scroll of a list without a selection
first_selection == 0

\* None arm
scroll_blame(a, amount, overflow_checks) ==
    IF is_some(a.blame_state)
    THEN LET index == unwrap(a.blame_state) IN
         IF Len(a.blame) = 0
         THEN \* blame.len() - 1 underflows: a panic with overflow checks, and
              \* usize::MAX without them, which clamps nothing
              IF overflow_checks
              THEN Panic(a, {})
              ELSE Result([a EXCEPT !.blame_state =
                               Some(saturating_add_signed_usize(index, amount))],
                          "Ok_true", {})
         ELSE Result([a EXCEPT !.blame_state =
                          Some(new_selection(index, amount, Len(a.blame)))],
                     "Ok_true", {})
    ELSE Result([a EXCEPT !.blame_state = Some(first_selection)], "Ok_true", {})

scroll(a, height, amount, overflow_checks) ==
    IF is_some(a.line_history)
    THEN scroll_line_history(a, height, amount)
    ELSE scroll_blame(a, amount, overflow_checks)

----------------------------------------------------------------------------
(* fn handle_input(key, app, term_size), terminal.rs 85-152 *)

\* one key per arm of the match: j/Down, k/Up, Ctrl-d/PageDown, Ctrl-u/PageUp,
\* Enter, b, B, q/Esc, and any other key
Keys == {"j", "k", "PageDown", "PageUp", "Enter", "b", "B", "q", "x"}

ScrollKeys == {"j", "k", "PageDown", "PageUp"}

\* term_size.height / 2
half_page(height) == height \div 2

\* (term_size.height / 2).try_into().unwrap() and
\* i16::try_from(term_size.height / 2).unwrap() return
amount_fits(key, height) ==
    key \in {"PageDown", "PageUp"} => i16_try_from_ok(half_page(height))

\* the step of each scrolling key
amount_of(key, height) ==
    CASE key = "j" -> 1
      [] key = "k" -> -1
      [] key = "PageDown" -> half_page(height)
      [] key = "PageUp" -> -half_page(height)

\* the selection after the blame was replaced by one of len lines
reclamp(index, len) == Min(index, len)

\* confirm asking for the history at the commit the session started from
confirm_at_first_commit(a, log_height) ==
    IF is_some(a.blame_state)
    THEN LET index == unwrap(a.blame_state) IN
         IF Len(a.commit_stack) = 0
         THEN Panic(a, {})
         ELSE Result([a EXCEPT !.line_history =
                          Some(git_log_follow(index, a.commit_stack[1], log_height))],
                     "Ok_true", {<<"log_follow", index, a.commit_stack[1]>>})
    ELSE Result(a, "Ok_true", {})

\* Enter
confirm(a, log_height) ==
    IF is_some(a.blame_state)
    THEN LET index == unwrap(a.blame_state)
             commit == last_of(a.commit_stack) IN
         IF ~is_some(commit)
         THEN Panic(a, {})                    \* commit_stack.last().unwrap()
         ELSE Result([a EXCEPT !.line_history =
                          Some(git_log_follow(index, unwrap(commit), log_height))],
                     "Ok_true", {<<"log_follow", index, unwrap(commit)>>})
    ELSE Result(a, "Ok_true", {})

\* descend pushing the parent before git::blame is known to succeed
descend_pushes_first(a, blame_ok) ==
    IF is_some(a.blame_state)
    THEN LET index == unwrap(a.blame_state) IN
         IF index >= Len(a.blame)
         THEN Panic(a, {})
         ELSE LET commit == a.blame[index + 1] IN
              IF ~has_parent(commit)
              THEN Result(a, "Err", {<<"parent_id", commit>>})
              ELSE LET parent == parent_id(commit)
                       pushed == [a EXCEPT !.commit_stack = Append(@, parent)] IN
                   IF ~blame_ok
                   THEN Result(pushed, "Err", {<<"parent_id", commit>>, <<"blame", parent>>})
                   ELSE LET new_blame == git_blame(a.repo, parent) IN
                        Result([pushed EXCEPT !.blame = new_blame,
                                              !.blame_state = Some(reclamp(index, Len(new_blame)))],
                               "Ok_true", {<<"parent_id", commit>>, <<"blame", parent>>})
    ELSE Result(a, "Ok_true", {})

\* 'b'
descend(a, blame_ok) ==
    IF is_some(a.blame_state)
    THEN LET index == unwrap(a.blame_state) IN
         IF index >= Len(a.blame)
         THEN Panic(a, {})                    \* app.blame[index] out of bounds
         ELSE LET commit == a.blame[index + 1] IN
              IF ~has_parent(commit)
              THEN Result(a, "Err", {<<"parent_id", commit>>})
              ELSE LET parent == parent_id(commit) IN
                   IF ~blame_ok
                   THEN Result(a, "Err", {<<"parent_id", commit>>, <<"blame", parent>>})
                   ELSE LET new_blame == git_blame(a.repo, parent) IN
                        Result([a EXCEPT !.blame = new_blame,
                                         !.blame_state = Some(reclamp(index, Len(new_blame))),
                                         !.commit_stack = Append(@, parent)],
                               "Ok_true", {<<"parent_id", commit>>, <<"blame", parent>>})
    ELSE Result(a, "Ok_true", {})

\* can_ascend with the comparison one too low
can_ascend_from_one(stack) == Len(stack) > 0

\* whether 'B' has a commit to return to
can_ascend(stack) == Len(stack) > 1

\* ascend dropping a selection that does not fit the blame it returns to
ascend_clears_selection(a, blame_ok) ==
    IF can_ascend(a.commit_stack)
    THEN LET popped == [a EXCEPT !.commit_stack = pop(@)]
             commit == last_of(popped.commit_stack) IN
         IF ~is_some(commit)
         THEN Panic(popped, {})
         ELSE IF ~blame_ok
         THEN Result(popped, "Err", {<<"blame", unwrap(commit)>>})
         ELSE LET new_blame == git_blame(a.repo, unwrap(commit)) IN
              Result([popped EXCEPT !.blame = new_blame,
                                    !.blame_state =
                                        IF is_some(@) /\ unwrap(@) < Len(new_blame)
                                        THEN Some(reclamp(unwrap(@), Len(new_blame)))
                                        ELSE None],
                     "Ok_true", {<<"blame", unwrap(commit)>>})
    ELSE Result(a, "Ok_true", {})

\* 'B'
ascend(a, blame_ok) ==
    IF can_ascend(a.commit_stack)
    THEN LET popped == [a EXCEPT !.commit_stack = pop(@)]
             commit == last_of(popped.commit_stack) IN
         IF ~is_some(commit)
         THEN Panic(popped, {})               \* commit_stack.last().unwrap()
         ELSE IF ~blame_ok
         THEN Result(popped, "Err", {<<"blame", unwrap(commit)>>})
         ELSE LET new_blame == git_blame(a.repo, unwrap(commit)) IN
              Result([popped EXCEPT !.blame = new_blame,
                                    !.blame_state =
                                        IF is_some(@)
                                        THEN Some(reclamp(unwrap(@), Len(new_blame)))
                                        ELSE @],
                     "Ok_true", {<<"blame", unwrap(commit)>>})
    ELSE Result(a, "Ok_true", {})

\* quit without the reset of line_history_scroll
quit_keeps_scroll(a) ==
    IF is_some(a.line_history)
    THEN Result([a EXCEPT !.line_history = None], "Ok_true", {})
    ELSE Result(a, "Ok_false", {})

\* 'q' / Esc
quit(a) ==
    IF is_some(a.line_history)
    THEN Result([a EXCEPT !.line_history = None, !.line_history_scroll = 0],
                "Ok_true", {})
    ELSE Result(a, "Ok_false", {})

\* io: what the outside world answers during this call
handle_input(key, a, io) ==
    CASE key \in ScrollKeys ->
             IF amount_fits(key, io.height)
             THEN scroll(a, io.height, amount_of(key, io.height), io.overflow_checks)
             ELSE Panic(a, {})
      [] key = "Enter" -> confirm(a, io.log_height)
      [] key = "b" -> descend(a, io.blame_ok)
      [] key = "B" -> ascend(a, io.blame_ok)
      [] key = "q" -> quit(a)
      [] OTHER -> Result(a, "Ok_true", {})

\* what the outside world may answer while a key is handled: the terminal
\* height, whether git::blame succeeds, and the height of the Text
\* git::log_follow returns; an answer the arm of the key never reads is fixed.
\* overflow_checks is whether an integer overflow panics (as in a debug
\* build) or wraps (as in a release build)
IO(key) ==
    [height : IF key \in ScrollKeys THEN Viewports ELSE {0},
     overflow_checks : IF key \in ScrollKeys THEN BOOLEAN ELSE {TRUE},
     blame_ok : IF key \in {"b", "B"} THEN BOOLEAN ELSE {TRUE},
     log_height : IF key = "Enter" THEN LogHeights ELSE {0}]

----------------------------------------------------------------------------
(* App::new, the caller that loads the first blame, and run_app *)

\* App::new(repo, filepath, commit), terminal.rs 38-48
App_new(r, commit) ==
    [blame |-> <<>>, blame_state |-> None, repo |-> r, commit_stack |-> <<commit>>,
     line_history |-> None, line_history_scroll |-> 0]

\* what the last event was and what became of it: the key and
\* handle_input's result
Event(key, res) == [key |-> key, res |-> res]

NoEvent == Event("none", "none")

Init ==
    /\ repo \in Repositories
    /\ blame = App_new(repo, 1).blame
    /\ blame_state = App_new(repo, 1).blame_state
    /\ commit_stack = App_new(repo, 1).commit_stack
    /\ line_history = App_new(repo, 1).line_history
    /\ line_history_scroll = App_new(repo, 1).line_history_scroll
    /\ pc = "new"
    /\ last = NoEvent

Becomes(a) ==
    /\ blame' = a.blame
    /\ blame_state' = a.blame_state
    /\ repo' = a.repo
    /\ commit_stack' = a.commit_stack
    /\ line_history' = a.line_history
    /\ line_history_scroll' = a.line_history_scroll

\* the caller of run_app fills app.blame with the blame of the start commit;
\* a failure there ends the program before the loop starts
Startup ==
    /\ pc = "new"
    /\ \E ok \in BOOLEAN :
         IF ok
         THEN /\ Becomes([App EXCEPT !.blame = git_blame(repo, unwrap(last_of(commit_stack)))])
              /\ pc' = "read"
         ELSE /\ Becomes(App)
              /\ pc' = "failed"
    /\ UNCHANGED last

\* where run_app goes after handle_input's result
next_pc(res) ==
    CASE res = "Ok_false" -> "returned"
      [] res = "Ok_true" -> "read"
      [] res = "Err" -> "error"
      [] res = "Panic" -> "panicked"

\* run_app's loop body on a key event, terminal.rs 63-80
KeyEvent ==
    /\ pc = "read"
    /\ \E key \in Keys :
         \* every result the outside world's answers can give this key
         \E r \in {handle_input(key, App, io) : io \in IO(key)} :
           \* the model stops the growth of the index on an empty blame
           /\ is_some(r.app.blame_state) => unwrap(r.app.blame_state) <= MaxLen
           /\ Becomes(r.app)
           /\ pc' = next_pc(r.res)
           /\ last' = Event(key, r.res)

\* DismissError letting 'q' end the session
DismissError_quits ==
    /\ pc = "error"
    /\ \E key \in Keys :
         /\ last' = Event(key, "Discarded")
         /\ pc' = IF key = "q" THEN "returned" ELSE "read"
    /\ UNCHANGED app_vars

\* terminal.rs 77: the first key event after an error only clears the message
DismissError ==
    /\ pc = "error"
    /\ \E key \in Keys :
         last' = Event(key, "Discarded")
    /\ pc' = "read"
    /\ UNCHANGED app_vars

\* an event that is no key event (mouse, resize) is skipped in both reads
OtherEvent ==
    /\ pc \in {"read", "error"}
    /\ last # NoEvent
    /\ last' = NoEvent
    /\ UNCHANGED <<app_vars, pc>>

Next == Startup \/ KeyEvent \/ DismissError \/ OtherEvent

Spec == Init /\ [][Next]_vars

----------------------------------------------------------------------------
(* Vocabulary of the properties *)

\* run_app is between two events, or has returned after one
Handled == pc \in {"read", "error", "returned"}

\* the commit on top of commit_stack
top == commit_stack[Len(commit_stack)]

\* the signed step the transition table gives each scrolling key
step(key, height) ==
    CASE key = "j" -> 1
      [] key = "k" -> -1
      [] key = "PageDown" -> height \div 2
      [] key = "PageUp" -> 0 - (height \div 2)

\* the step now taken is run_app dispatching the key to handle_input
Dispatch(key) == pc = "read" /\ last'.key = key /\ last'.res # "none"

NavigationUnchanged == UNCHANGED <<blame, blame_state, commit_stack>>

----------------------------------------------------------------------------
(* C1 - C10 *)

\* C1: after any sequence of key events and History Provider results, the
\* selection is None or an index i with 0 <= i < len(attribution).
C1_SelectionInRange ==
    Handled => \/ blame_state = None
               \/ unwrap(blame_state) \in 0..(Len(blame) - 1)

\* C2: whenever handling an event returns RecoverableError, attribution,
\* selection and commit_stack are exactly what they were before the event.
C2_ErrorIsAllOrNothing ==
    [][last'.res = "Err" => NavigationUnchanged]_vars

\* C3: commit_stack has length at least 1 in every reachable state.
C3_StackNeverEmpty == Len(commit_stack) >= 1

\* a failing ascend has brought the stack back to its first commit
C3_Witness ==
    /\ last = Event("B", "Err")
    /\ Len(commit_stack) = 1

\* C4: after every handled event, whether it succeeded or returned
\* RecoverableError, attribution is the blame of the commit on top of
\* commit_stack.
C4_BlameOfTop == Handled => blame = git_blame(repo, top)

\* C5: quit/escape terminates the session if and only if no overlay is open;
\* with an overlay open it clears the overlay, resets the overlay scroll
\* offset to 0 and returns Continue.
C5_Quit ==
    [][Dispatch("q") =>
          IF is_some(line_history)
          THEN /\ last'.res = "Ok_true"
               /\ pc' = "read"
               /\ line_history' = None
               /\ line_history_scroll' = 0
          ELSE /\ last'.res = "Ok_false"
               /\ pc' = "returned"]_vars

\* quit has closed an overlay and the session goes on
C5_Witness ==
    /\ last = Event("q", "Ok_true")
    /\ pc = "read"
    /\ line_history = None

\* C6: a successful descend immediately followed by an ascend returns
\* commit_stack to its contents before the descend and sets attribution to
\* the blame of the commit that was on top then.
C6_RoundTrip ==
    [][(last = Event("b", "Ok_true") /\ is_some(blame_state) /\ Dispatch("B")) =>
          /\ commit_stack' = pop(commit_stack)
          /\ blame' = git_blame(repo, unwrap(last_of(pop(commit_stack))))]_vars

\* C7: handling an event never panics: it always yields Continue, Terminate
\* or RecoverableError.
C7_NeverPanics == pc # "panicked"

\* C8: while an overlay is open, confirm, descend and ascend are no-ops:
\* they return Continue, leave attribution, selection, commit_stack, the
\* overlay and its scroll offset unchanged and never call the History Provider.
C8_OverlayIsReadOnly ==
    [][\A key \in {"Enter", "b", "B"} :
          (Dispatch(key) /\ is_some(line_history)) =>
              /\ last'.res = "Ok_true"
              /\ NavigationUnchanged
              /\ UNCHANGED <<line_history, line_history_scroll>>
              /\ \A io \in IO(key) : handle_input(key, App, io).calls = {}]_vars

\* C9: with an overlay open, a scroll event with step s at viewport height h
\* sets the overlay offset to clamp(offset + s, 0, max(0, content height - h))
\* and changes nothing else.
C9_OverlayScroll ==
    (pc = "read" /\ is_some(line_history)) =>
        \A key \in ScrollKeys : \A io \in IO(key) :
            LET r == handle_input(key, App, io)
                most == Max(0, unwrap(line_history).height - io.height)
                want == Max(0, Min(line_history_scroll + step(key, io.height), most))
            IN  /\ r.res = "Ok_true"
                /\ r.app = [App EXCEPT !.line_history_scroll = want]

\* C10: with no overlay open and a non-empty attribution, a scroll event with
\* step s selects clamp(i + s, 0, len(attribution) - 1) when the selection is
\* Some(i) and 0 when it is None, and changes nothing else.
C10_ListScroll ==
    (pc = "read" /\ line_history = None /\ Len(blame) > 0) =>
        \A key \in ScrollKeys : \A io \in IO(key) :
            LET r == handle_input(key, App, io)
                want == IF is_some(blame_state)
                        THEN Max(0, Min(unwrap(blame_state) + step(key, io.height),
                                        Len(blame) - 1))
                        ELSE 0
            IN  /\ r.res = "Ok_true"
                /\ r.app = [App EXCEPT !.blame_state = Some(want)]

\* a scroll of the list has moved the selection to the last line of a
\* listing of several lines
C10_Witness ==
    /\ last.key \in ScrollKeys
    /\ last.res = "Ok_true"
    /\ line_history = None
    /\ Len(blame) > 1
    /\ blame_state = Some(Len(blame) - 1)

----------------------------------------------------------------------------
(* C11 - C20 *)

\* the step now taken is run_app dispatching a scrolling key
DispatchScroll == \E key \in ScrollKeys : Dispatch(key)

\* C11: when attribution is empty and no overlay is open, every scroll event
\* is a no-op: the selection remains None and no other state changes.
C11_EmptyListScroll ==
    [][(DispatchScroll /\ line_history = None /\ Len(blame) = 0) =>
          /\ last'.res = "Ok_true"
          /\ blame_state' = None
          /\ UNCHANGED app_vars]_vars

\* C12: in ListOnly mode with selection Some(i), a descend whose parent
\* lookup and blame both succeed appends the parent of attribution[i].commit
\* to commit_stack, makes attribution the blame of that parent and makes the
\* selection min(i, len(new attribution) - 1).  Stated where the new
\* attribution has a line, so that the index claimed exists.
C12_Descend ==
    [][(Dispatch("b") /\ line_history = None /\ is_some(blame_state)
            /\ last'.res = "Ok_true" /\ Len(blame') > 0) =>
          LET i == unwrap(blame_state)
              parent == parent_id(blame[i + 1])
          IN  /\ commit_stack' = Append(commit_stack, parent)
              /\ blame' = git_blame(repo, parent)
              /\ blame_state' = Some(Min(i, Len(blame') - 1))]_vars

\* C13: after an event returns RecoverableError the very next key event,
\* whatever key it is, is discarded: it changes no navigation state and does
\* not terminate the session; the key event after it is dispatched normally.
C13_NextKeyDismisses ==
    [][/\ last'.res = "Err" => pc' = "error"
       /\ (pc = "error" /\ last'.key \in Keys) =>
              /\ last'.res = "Discarded"
              /\ pc' = "read"
              /\ UNCHANGED app_vars
       /\ (last.res = "Discarded" /\ last'.key \in Keys) =>
              \E io \in IO(last'.key) :
                  LET r == handle_input(last'.key, App, io)
                  IN  /\ last'.res = r.res
                      /\ App' = r.app
                      /\ pc' = next_pc(r.res)]_vars

\* quit/escape has been spent on dismissing an error message
C13_Witness ==
    /\ last = Event("q", "Discarded")
    /\ pc = "read"

\* C14: if no overlay is present the overlay scroll offset is 0; the offset
\* is non-zero only while an overlay is open.
C14_OffsetNeedsOverlay == line_history = None => line_history_scroll = 0

\* an open overlay is scrolled away from its top
C14_Witness ==
    /\ is_some(line_history)
    /\ line_history_scroll > 0

\* C15: in ListOnly mode, confirm with selection Some(i) opens the overlay
\* with the log-follow result for line i at the commit on top of
\* commit_stack and with scroll offset 0, leaving attribution, selection and
\* commit_stack unchanged; with selection None it is a no-op.
C15_Confirm ==
    (pc = "read" /\ line_history = None) =>
        \A io \in IO("Enter") :
            LET r == handle_input("Enter", App, io) IN
            IF is_some(blame_state)
            THEN LET i == unwrap(blame_state) IN
                 /\ r.res = "Ok_true"
                 /\ r.calls = {<<"log_follow", i, top>>}
                 /\ r.app = [App EXCEPT !.line_history =
                                 Some(git_log_follow(i, top, io.log_height))]
                 /\ r.app.line_history_scroll = 0
            ELSE r = Result(App, "Ok_true", {})

\* confirm has opened an overlay somewhere below the first commit
C15_Witness ==
    /\ last = Event("Enter", "Ok_true")
    /\ is_some(line_history)
    /\ line_history_scroll = 0
    /\ Len(commit_stack) > 1

\* C16: commit_stack grows only by a successful descend, by exactly one
\* element, and shrinks only by an ascend, by exactly one element; every
\* other event leaves commit_stack and attribution unchanged.
C16_StackMoves ==
    [][/\ Len(commit_stack') > Len(commit_stack) =>
              /\ Dispatch("b")
              /\ last'.res = "Ok_true"
              /\ pop(commit_stack') = commit_stack
       /\ Len(commit_stack') < Len(commit_stack) =>
              /\ Dispatch("B")
              /\ commit_stack' = pop(commit_stack)
       /\ Len(commit_stack') = Len(commit_stack) => commit_stack' = commit_stack
       /\ (pc \in {"read", "error"} /\ ~(Dispatch("b") \/ Dispatch("B"))) =>
              blame' = blame]_vars

\* a successful descend has pushed a commit
C16_Witness ==
    /\ last = Event("b", "Ok_true")
    /\ Len(commit_stack) = 2

\* C17: descend with selection None, and ascend when commit_stack has length
\* 1, are no-ops: they return Continue, make no History Provider call and
\* leave attribution, selection, commit_stack and the overlay unchanged.
C17_NothingToDo ==
    pc = "read" =>
        /\ blame_state = None =>
               \A io \in IO("b") : handle_input("b", App, io) = Result(App, "Ok_true", {})
        /\ Len(commit_stack) = 1 =>
               \A io \in IO("B") : handle_input("B", App, io) = Result(App, "Ok_true", {})

\* 'B' was pressed before any selection, and so before any descend
C17_Witness ==
    /\ last = Event("B", "Ok_true")
    /\ pc = "read"
    /\ blame_state = None
    /\ Len(commit_stack) = 1

\* C18: for every viewport height h, half-page-down and half-page-up have
\* exactly the effect of the scroll routine with step +floor(h/2) and
\* -floor(h/2), in list mode and in overlay mode, with the clamping of
\* single-step scrolling and no overflow or wrap-around in the offset or index.
C18_HalfPage ==
    pc = "read" =>
        \A key \in {"PageDown", "PageUp"} : \A io \in IO(key) :
            LET r == handle_input(key, App, io)
                s == step(key, io.height)
            IN  /\ r = scroll(App, io.height, s, io.overflow_checks)
                /\ r.res = "Ok_true"
                /\ IF is_some(line_history)
                   THEN r.app.line_history_scroll =
                            Max(0, Min(line_history_scroll + s,
                                       Max(0, unwrap(line_history).height - io.height)))
                   ELSE IF is_some(blame_state) /\ Len(blame) > 0
                   THEN r.app.blame_state =
                            Some(Max(0, Min(unwrap(blame_state) + s, Len(blame) - 1)))
                   ELSE /\ is_some(r.app.blame_state)
                        /\ unwrap(r.app.blame_state) >= 0

\* how many quit/escape keys the session is away from its end: one for a
\* pending error message, one for an open overlay, and the one that ends it
QuitsToGo ==
    (IF pc = "error" THEN 1 ELSE 0) + (IF is_some(line_history) THEN 1 ELSE 0) + 1

\* C19: from any state of the outer loop, a run of consecutive quit/escape
\* keys terminates the session after at most three of them: at most one
\* dismisses a pending error message, at most one closes an open overlay,
\* and the next one terminates; no other key ever terminates the session,
\* be it by returning or by a panic.
C19_QuitRun ==
    [][/\ QuitsToGo <= 3
       /\ (pc \in {"read", "error"} /\ last'.key = "q") =>
              IF QuitsToGo = 1
              THEN pc' = "returned"
              ELSE /\ pc' \in {"read", "error"}
                   /\ QuitsToGo' = QuitsToGo - 1
       /\ (pc \in {"read", "error"} /\ pc' \in {"returned", "panicked"}) =>
              last'.key = "q"]_vars

\* C20: once the selection is Some, no event sets it back to None; and while
\* the selection is None, descend and confirm have no effect.
C20_SelectionStays ==
    [][/\ is_some(blame_state) => is_some(blame_state')
       /\ \A key \in {"b", "Enter"} :
              (Dispatch(key) /\ blame_state = None) =>
                  (last'.res = "Ok_true" /\ App' = App)]_vars

\* the selection has outlived an ascend to a shorter attribution
C20_Witness ==
    /\ last = Event("B", "Ok_true")
    /\ Len(commit_stack) = 1
    /\ Len(blame) > 0
    /\ blame_state = Some(Len(blame))

====
